---- MODULE Spec2Model ----
(***************************************************************************)
(* A model of the SETools type-enforcement rule query tab                  *)
(* (setoolsgui/apol/terulequery.py: TERuleQueryTab and its worker          *)
(* ResultsUpdater) and of the initial-SID factory                          *)
(* (setools/policyrep/initsid.py).                                         *)
(*                                                                         *)
(* Two threads are modelled: the GUI thread, which runs the tab's slots    *)
(* one at a time, and the worker QThread, which runs                       *)
(* ResultsUpdater.update.  Signals emitted by the worker reach the GUI     *)
(* thread through a FIFO queue of posted events (guiQueue).                *)
(*                                                                         *)
(* The query engine (setools.TERuleQuery), the policy object and the qpol  *)
(* bindings are not part of the sources at hand; they are modelled from    *)
(* the specification's sections 4.1-4.3 and are marked as such.            *)
(***************************************************************************)
EXTENDS Integers, Sequences, FiniteSets, TLC

(***************************************************************************)
(* Bounds of the model.                                                    *)
(***************************************************************************)
\* Longest policy (number of rules) explored by Spec.
MaxRules == 2
\* Most InitialSID objects the factory constructs in one behaviour.
MaxObjects == 3

(***************************************************************************)
(* The fixture policy: names are sequences of characters so that regular   *)
(* expressions can be matched against them character by character.         *)
(***************************************************************************)
T1 == <<"t", "1">>
T2 == <<"t", "2">>
A1 == <<"a", "1">>
\* The empty text of a line edit / an unset pattern.
Empty == <<>>
\* A text that is neither a name of the policy nor a valid regular expression.
BadText == <<"[">>
\* A regular expression: names that start with "t".
CaretT == <<"^", "t">>

Types == {T1, T2}
Attributes == {A1}
\* Attribute membership: t1 is a member of a1, t2 is not.
MembersOf(a) == IF a = A1 THEN {T1} ELSE {}
AttrsOf(t) == {a \in Attributes : t \in MembersOf(a)}

Classes == {"file", "dir"}
Perms == {"read", "write"}
Bools == {"b1"}
\* The rule kinds, in the order of the tab's check boxes.
RuleTypes ==
    <<"allow", "auditallow", "neverallow", "dontaudit",
      "type_transition", "type_member", "type_change">>
RuleTypeSet == {RuleTypes[i] : i \in 1..Len(RuleTypes)}

\* A rule of the policy.  Allow-family rules carry permissions and no
\* default; transition-family rules carry a default type and no permissions.
\* bools is the set of booleans of the guarding conditional (empty: none).
Rule(rt, s, t, c, p, d, b) ==
    [ruletype |-> rt, source |-> s, target |-> t, tclass |-> c,
     perms |-> p, default |-> d, bools |-> b]

R1 == Rule("allow", T1, T2, "file", {"read", "write"}, Empty, {})
R2 == Rule("allow", A1, T2, "file", {"read"}, Empty, {})
R3 == Rule("type_transition", T2, T1, "dir", {}, T2, {})
R4 == Rule("dontaudit", T2, A1, "dir", {"write"}, Empty, {"b1"})
RuleUniverse == {R1, R2, R3, R4}

\* Sequences without repetition over S, of length at most n.
InjSeqs(S, n) ==
    UNION {{s \in [1..k -> S] : \A i, j \in 1..k : s[i] = s[j] => i = j} :
           k \in 0..n}

(***************************************************************************)
(* Sequence helpers.                                                       *)
(***************************************************************************)
RECURSIVE FilterSeq(_, _)
\* The subsequence of s, in order, of the elements that are in the set keep.
FilterSeq(s, keep) ==
    IF s = <<>> THEN <<>>
    ELSE IF Head(s) \in keep THEN <<Head(s)>> \o FilterSeq(Tail(s), keep)
    ELSE FilterSeq(Tail(s), keep)

RECURSIVE IsSubsequence(_, _)
\* s is an order-preserving subsequence of t.
IsSubsequence(s, t) ==
    IF s = <<>> THEN TRUE
    ELSE IF t = <<>> THEN FALSE
    ELSE IF Head(s) = Head(t) THEN IsSubsequence(Tail(s), Tail(t))
    ELSE IsSubsequence(s, Tail(t))

IsPrefixOf(s, t) == Len(s) <= Len(t) /\ SubSeq(t, 1, Len(s)) = s

Range(s) == {s[i] : i \in 1..Len(s)}

(***************************************************************************)
(* The query engine's matchers (specification 4.2).                        *)
(***************************************************************************)
\* The bounded fragment of Python's re that the texts of the model use: an
\* optional leading "^" followed by literal characters.  A "[" opens a
\* character set that is never closed: re.compile rejects the pattern.
RegexValid(pat) == \A i \in 1..Len(pat) : pat[i] # "["

\* re.search: the pattern matches at some position of name ("^": at its
\* start only).
RegexSearch(pat, name) ==
    IF Len(pat) > 0 /\ Head(pat) = "^"
    THEN IsPrefixOf(Tail(pat), name)
    ELSE \E i \in 1..(Len(name) + 1) :
            /\ i + Len(pat) - 1 <= Len(name)
            /\ SubSeq(name, i, i + Len(pat) - 1) = pat

\* Whether assigning text to a string criterion is accepted: an empty text
\* unsets the criterion; in regex mode the text must compile; otherwise it
\* must name an element of the policy (names: the names it may resolve to).
AssignOk(text, regex, names) ==
    \/ text = Empty
    \/ regex /\ RegexValid(text)
    \/ ~regex /\ text \in names

\* A string matcher on one name: a regular-expression search or an exact
\* comparison.
MatchRegex(name, crit, regex) ==
    IF regex THEN RegexValid(crit) /\ RegexSearch(crit, name) ELSE crit = name

\* A string matcher with the indirect mode: the rule's field itself, or, for
\* a type, an attribute that owns it, or, for an attribute, a member type.
MatchIndirectRegex(name, crit, indirect, regex) ==
    \/ MatchRegex(name, crit, regex)
    \/ /\ indirect
       /\ \/ \E a \in AttrsOf(name) : MatchRegex(a, crit, regex)
          \/ \E t \in MembersOf(name) : MatchRegex(t, crit, regex)

\* A set matcher: set equality, or the rule's set contains the criterion.
MatchSet(ruleset, crit, equal) ==
    IF equal THEN ruleset = crit ELSE crit \subseteq ruleset

\* The conjunction of the configured criteria; an unset or empty criterion
\* is skipped.
Matches(q, r) ==
    /\ q.ruletype # {} => r.ruletype \in q.ruletype
    /\ q.source # Empty =>
          MatchIndirectRegex(r.source, q.source, q.source_indirect, q.source_regex)
    /\ q.target # Empty =>
          MatchIndirectRegex(r.target, q.target, q.target_indirect, q.target_regex)
    /\ q.tclass # {} => r.tclass \in q.tclass
    /\ q.perms # {} => MatchSet(r.perms, q.perms, q.perms_equal)
    /\ q.default # Empty =>
          r.default # Empty /\ MatchRegex(r.default, q.default, q.default_regex)
    /\ q.boolean # {} => MatchSet(r.bools, q.boolean, q.boolean_equal)

\* policy.<kind>_count: the number of rules of one kind.
RuleCount(pol, kind) == Cardinality({i \in 1..Len(pol) : pol[i].ruletype = kind})

(***************************************************************************)
(* State.                                                                  *)
(***************************************************************************)
VARIABLES
    policy,       \* the loaded policy: its rules in native enumeration order
    ui,           \* the tab's input widgets (texts, check boxes, selections)
    msgbox,       \* the "broad query" question box is open (run() is waiting)
    query,        \* the TERuleQuery object's criteria
    max_results,  \* run()'s estimate of the number of results
    busy,         \* the QProgressDialog: visible, wasCanceled
    thread,       \* the QThread: state and interruption flag
    worker,       \* ResultsUpdater.update: position and local variables
    resultlist,   \* table_results_model.resultlist
    raw_results,  \* the lines of the raw results text
    guiQueue,     \* events posted by the worker's signals to the GUI thread
    logged,       \* the count of the last "... rule(s) found" log record
    req,          \* history: what the scan had done when stop was requested
    fresh,        \* history: resultlist is the outcome of an uncancelled scan
                  \*          and no criterion was assigned a new value since
    ran,          \* history: the run button has been clicked
    emitted,      \* history: the rules update() has emitted raw_line for, in
                  \*          its current run
    cancelled,    \* history: a scan that was asked to stop has finished
    heap,         \* the InitialSID objects constructed so far
    ret           \* the outcome of the last initialsid_factory call

guiVars ==
    <<policy, ui, msgbox, query, max_results, busy, thread, worker,
      resultlist, raw_results, guiQueue, logged, req, fresh, ran, emitted,
      cancelled>>
sidVars == <<heap, ret>>
\* What no slot of the tab other than run() touches.
otherVars == <<ran, emitted, cancelled, heap, ret>>
vars == <<guiVars, sidVars>>

\* No stop has been requested in the current scan.
NoReq == [set |-> FALSE, n |-> 0, scanned |-> 0]

\* The worker's local variables outside update().
WorkerIdle(pc) == [pc |-> pc, scanned |-> 0, item |-> 0, results |-> <<>>, counter |-> 0]

\* The tab after __init__: setupUi has synchronised the regex flags with the
\* check boxes and assigned the (empty) texts; the busy dialog has been reset.
InitTab ==
    /\ ui = [source |-> Empty, source_regex |-> FALSE, source_indirect |-> FALSE,
             source_error |-> FALSE,
             target |-> Empty, target_regex |-> FALSE, target_indirect |-> FALSE,
             target_error |-> FALSE,
             tclass |-> {}, perms |-> {}, perms_equal |-> FALSE,
             default_type |-> Empty, default_regex |-> FALSE,
             default_error |-> FALSE,
             bools |-> {}, bools_equal |-> FALSE,
             ruletypes |-> {}]
    /\ msgbox = FALSE
    /\ query = [source |-> Empty, source_regex |-> FALSE, source_indirect |-> FALSE,
                target |-> Empty, target_regex |-> FALSE, target_indirect |-> FALSE,
                tclass |-> {}, perms |-> {}, perms_equal |-> FALSE,
                default |-> Empty, default_regex |-> FALSE,
                boolean |-> {}, boolean_equal |-> FALSE,
                ruletype |-> {}]
    /\ max_results = 0
    /\ busy = [visible |-> FALSE, wasCanceled |-> FALSE]
    /\ thread = [state |-> "stopped", interruptionRequested |-> FALSE]
    /\ worker = WorkerIdle("idle")
    /\ resultlist = <<>>
    /\ raw_results = <<>>
    /\ guiQueue = <<>>
    /\ logged = 0
    /\ req = NoReq
    /\ fresh = FALSE
    /\ ran = FALSE
    /\ emitted = <<>>
    /\ cancelled = FALSE

InitSid ==
    /\ heap = <<>>
    /\ ret = [kind |-> "none", input |-> [tag |-> "", name |-> ""], ref |-> 0,
              error |-> ""]

\* The tab receives user input: no modal dialog is in front of it.
Interactive == ~busy.visible /\ ~msgbox

\* An assignment to the query's criteria, with the history of whether any
\* criterion changed since the last uncancelled scan.
AssignQuery(q) ==
    /\ query' = q
    /\ fresh' = (fresh /\ q = query)

workerVars == <<thread, worker, resultlist, raw_results, guiQueue, logged, req>>

(***************************************************************************)
(* Source, target and default criteria.                                    *)
(***************************************************************************)
\* set_source: the assignment raises on a text that does not resolve (or, in
\* regex mode, does not compile); the handler then shows the error and the
\* criterion keeps its value.
set_source(q, u) ==
    IF AssignOk(u.source, q.source_regex, Types \cup Attributes)
    THEN [q |-> [q EXCEPT !.source = u.source], u |-> u]
    ELSE [q |-> q, u |-> [u EXCEPT !.source_error = TRUE]]

\* set_source_regex: assign the flag, clear the error, assign the text again.
set_source_regex(q, u, state) ==
    set_source([q EXCEPT !.source_regex = state],
               [u EXCEPT !.source_error = FALSE])

set_target(q, u) ==
    IF AssignOk(u.target, q.target_regex, Types \cup Attributes)
    THEN [q |-> [q EXCEPT !.target = u.target], u |-> u]
    ELSE [q |-> q, u |-> [u EXCEPT !.target_error = TRUE]]

set_target_regex(q, u, state) ==
    set_target([q EXCEPT !.target_regex = state],
               [u EXCEPT !.target_error = FALSE])

\* set_default_type: assign the flag from the check box, then the text; the
\* default must name a type.
set_default_type(q, u) ==
    LET q1 == [q EXCEPT !.default_regex = u.default_regex] IN
    IF AssignOk(u.default_type, q1.default_regex, Types)
    THEN [q |-> [q1 EXCEPT !.default = u.default_type], u |-> u]
    ELSE [q |-> q1, u |-> [u EXCEPT !.default_error = TRUE]]

set_default_regex(q, u, state) ==
    set_default_type([q EXCEPT !.default_regex = state],
                     [u EXCEPT !.default_error = FALSE])

\* The user edits the source text (textEdited clears the error) and leaves
\* the field (editingFinished runs set_source).
EditSource(text) ==
    /\ Interactive
    /\ LET r == set_source(query, [ui EXCEPT !.source = text, !.source_error = FALSE]) IN
       /\ ui' = r.u
       /\ AssignQuery(r.q)
    /\ UNCHANGED <<policy, msgbox, max_results, busy, workerVars, otherVars>>

\* The user toggles the source "regex" check box.
ToggleSourceRegex ==
    /\ Interactive
    /\ LET state == ~ui.source_regex
           r == set_source_regex(query, [ui EXCEPT !.source_regex = state], state) IN
       /\ ui' = r.u
       /\ AssignQuery(r.q)
    /\ UNCHANGED <<policy, msgbox, max_results, busy, workerVars, otherVars>>

EditTarget(text) ==
    /\ Interactive
    /\ LET r == set_target(query, [ui EXCEPT !.target = text, !.target_error = FALSE]) IN
       /\ ui' = r.u
       /\ AssignQuery(r.q)
    /\ UNCHANGED <<policy, msgbox, max_results, busy, workerVars, otherVars>>

ToggleTargetRegex ==
    /\ Interactive
    /\ LET state == ~ui.target_regex
           r == set_target_regex(query, [ui EXCEPT !.target_regex = state], state) IN
       /\ ui' = r.u
       /\ AssignQuery(r.q)
    /\ UNCHANGED <<policy, msgbox, max_results, busy, workerVars, otherVars>>

EditDefault(text) ==
    /\ Interactive
    /\ LET r == set_default_type(query,
                    [ui EXCEPT !.default_type = text, !.default_error = FALSE]) IN
       /\ ui' = r.u
       /\ AssignQuery(r.q)
    /\ UNCHANGED <<policy, msgbox, max_results, busy, workerVars, otherVars>>

ToggleDefaultRegex ==
    /\ Interactive
    /\ LET state == ~ui.default_regex
           r == set_default_regex(query, [ui EXCEPT !.default_regex = state], state) IN
       /\ ui' = r.u
       /\ AssignQuery(r.q)
    /\ UNCHANGED <<policy, msgbox, max_results, busy, workerVars, otherVars>>

\* The "indirect" and "equal" check boxes have no handler: run() reads them.
ToggleBox(box) ==
    /\ Interactive
    /\ box \in {"source_indirect", "target_indirect", "perms_equal", "bools_equal"}
    /\ ui' = [ui EXCEPT ![box] = ~ui[box]]
    /\ UNCHANGED <<policy, msgbox, query, fresh, max_results, busy, workerVars, otherVars>>

(***************************************************************************)
(* Class, permission and boolean criteria.                                 *)
(***************************************************************************)
\* set_tclass, after the user changed the selection of the class list.
SelectTclass(sel) ==
    /\ Interactive
    /\ sel # ui.tclass
    /\ ui' = [ui EXCEPT !.tclass = sel]
    /\ AssignQuery([query EXCEPT !.tclass = sel])
    /\ UNCHANGED <<policy, msgbox, max_results, busy, workerVars, otherVars>>

\* set_perms, after the user changed the selection of the permission list.
SelectPerms(sel) ==
    /\ Interactive
    /\ sel # ui.perms
    /\ ui' = [ui EXCEPT !.perms = sel]
    /\ AssignQuery([query EXCEPT !.perms = sel])
    /\ UNCHANGED <<policy, msgbox, max_results, busy, workerVars, otherVars>>

\* set_bools, after the user changed the selection of the boolean list.
SelectBools(sel) ==
    /\ Interactive
    /\ sel # ui.bools
    /\ ui' = [ui EXCEPT !.bools = sel]
    /\ AssignQuery([query EXCEPT !.boolean = sel])
    /\ UNCHANGED <<policy, msgbox, max_results, busy, workerVars, otherVars>>

(***************************************************************************)
(* Rule kind check boxes.                                                  *)
(***************************************************************************)
_set_ruletypes(value) == IF value THEN RuleTypeSet ELSE {}

set_all_ruletypes ==
    /\ Interactive
    /\ ui' = [ui EXCEPT !.ruletypes = _set_ruletypes(TRUE)]
    /\ UNCHANGED <<policy, msgbox, query, fresh, max_results, busy, workerVars, otherVars>>

clear_all_ruletypes ==
    /\ Interactive
    /\ ui' = [ui EXCEPT !.ruletypes = _set_ruletypes(FALSE)]
    /\ UNCHANGED <<policy, msgbox, query, fresh, max_results, busy, workerVars, otherVars>>

\* The user toggles one rule kind's check box.
ToggleRuletype(kind) ==
    /\ Interactive
    /\ ui' = [ui EXCEPT !.ruletypes =
                 IF kind \in @ THEN @ \ {kind} ELSE @ \cup {kind}]
    /\ UNCHANGED <<policy, msgbox, query, fresh, max_results, busy, workerVars, otherVars>>

(***************************************************************************)
(* The results runner: TERuleQueryTab.run.                                 *)
(***************************************************************************)
RECURSIVE SumCounts(_, _, _)
\* max_results: the sum of the policy's rule counts of the checked kinds.
SumCounts(pol, checked, kinds) ==
    IF kinds = <<>> THEN 0
    ELSE (IF Head(kinds) \in checked THEN RuleCount(pol, Head(kinds)) ELSE 0)
         + SumCounts(pol, checked, Tail(kinds))

\* rule_types: the checked kinds (the code builds the list in check box
\* order; the engine only tests membership).
RunRuleTypes(u) == {k \in RuleTypeSet : k \in u.ruletypes}

\* run() with source_indirect read from the target's check box.
RunCriteria_targetBox(q, u) ==
    [q EXCEPT !.ruletype = RunRuleTypes(u),
              !.source_indirect = u.target_indirect,
              !.target_indirect = u.target_indirect,
              !.perms_equal = u.perms_equal,
              !.boolean_equal = u.bools_equal]

\* run() without the assignment of perms_equal.
RunCriteria_noPermsEqual(q, u) ==
    [q EXCEPT !.ruletype = RunRuleTypes(u),
              !.source_indirect = u.source_indirect,
              !.target_indirect = u.target_indirect,
              !.boolean_equal = u.bools_equal]

\* The criteria run() assigns from the check boxes before it starts a scan.
RunCriteria(q, u) ==
    [q EXCEPT !.ruletype = RunRuleTypes(u),
              !.source_indirect = u.source_indirect,
              !.target_indirect = u.target_indirect,
              !.perms_equal = u.perms_equal,
              !.boolean_equal = u.bools_equal]

\* "if query is broad": no criterion other than the rule kinds is set.
IsBroad(q) ==
    /\ q.source = Empty /\ q.target = Empty /\ q.tclass = {}
    /\ q.perms = {} /\ q.default = Empty /\ q.boolean = {}

\* QThread.start(): does nothing when the thread is running; otherwise the
\* thread runs, its interruption flag is cleared and the started signal
\* invokes worker.update.
\* A start() that leaves the interruption flag of the previous run as it is.
ThreadStart_keepFlag ==
    IF thread.state = "stopped"
    THEN /\ thread' = [thread EXCEPT !.state = "running"]
         /\ worker' = WorkerIdle("starting")
         /\ req' = NoReq
    ELSE UNCHANGED <<thread, worker, req>>

ThreadStart ==
    IF thread.state = "stopped"
    THEN /\ thread' = [state |-> "running", interruptionRequested |-> FALSE]
         /\ worker' = WorkerIdle("starting")
         /\ req' = NoReq
    ELSE UNCHANGED <<thread, worker, req>>

\* "start processing": show the busy dialog, clear the raw results, start
\* the thread.
StartProcessing ==
    /\ busy' = [busy EXCEPT !.visible = TRUE]
    /\ raw_results' = <<>>
    /\ ThreadStart

\* The user clicks the button: run() up to the question box (broad query) or
\* to its end.
Run ==
    /\ Interactive
    /\ max_results' = SumCounts(policy, ui.ruletypes, RuleTypes)
    /\ AssignQuery(RunCriteria(query, ui))
    /\ IF IsBroad(query')
       THEN /\ msgbox' = TRUE
            /\ UNCHANGED <<busy, raw_results, thread, worker, req>>
       ELSE /\ msgbox' = FALSE
            /\ StartProcessing
    /\ ran' = TRUE
    /\ UNCHANGED <<policy, ui, resultlist, guiQueue, logged, emitted, cancelled,
                   sidVars>>

\* A run() that on the answer No skips the busy dialog only and starts the
\* thread all the same.
QuestionReply_startsAnyway(reply) ==
    /\ msgbox
    /\ msgbox' = FALSE
    /\ IF reply = "No"
       THEN ThreadStart /\ UNCHANGED <<busy, raw_results>>
       ELSE StartProcessing
    /\ UNCHANGED <<policy, ui, query, fresh, max_results, resultlist, guiQueue,
                   logged, otherVars>>

\* The user answers the question box: run() returns on No and goes on to
\* start processing on Yes.
QuestionReply(reply) ==
    /\ msgbox
    /\ msgbox' = FALSE
    /\ IF reply = "No"
       THEN UNCHANGED <<busy, raw_results, thread, worker, req>>
       ELSE StartProcessing
    /\ UNCHANGED <<policy, ui, query, fresh, max_results, resultlist, guiQueue,
                   logged, otherVars>>

\* The user cancels the busy dialog.  QProgressDialog.cancel() hides the
\* dialog and sets wasCanceled; the canceled signal runs
\* thread.requestInterruption, which sets the flag of a running thread.
Cancel ==
    /\ busy.visible
    /\ busy' = [visible |-> FALSE, wasCanceled |-> TRUE]
    /\ thread' = IF thread.state = "stopped" THEN thread
                 ELSE [thread EXCEPT !.interruptionRequested = TRUE]
    /\ req' = IF /\ thread.state = "running"
                 /\ ~thread.interruptionRequested
                 /\ worker.pc \in {"starting", "scanning", "yielded", "appended"}
              THEN [set |-> TRUE, n |-> Len(worker.results),
                    scanned |-> worker.scanned]
              ELSE req
    /\ UNCHANGED <<policy, ui, msgbox, query, fresh, max_results, worker,
                   resultlist, raw_results, guiQueue, logged, otherVars>>

(***************************************************************************)
(* The worker: ResultsUpdater.update, run in the QThread.                  *)
(***************************************************************************)
\* str(item): the rule's statement.
Statement(r) ==
    <<r.ruletype, r.source, r.target, r.tclass, r.perms, r.default, r.bools>>

\* The started signal invokes update(): beginResetModel, results = [],
\* counter = 0, and the generator self.query.results() is created.
\* update() that goes on with the table model's list instead of a new one.
UpdateBegin_keep == [WorkerIdle("scanning") EXCEPT !.results = resultlist]

UpdateBegin == WorkerIdle("scanning")

WorkerBegin ==
    /\ thread.state = "running"
    /\ worker.pc = "starting"
    /\ worker' = UpdateBegin
    /\ emitted' = <<>>
    /\ UNCHANGED <<policy, ui, msgbox, query, fresh, max_results, busy, thread,
                   resultlist, raw_results, guiQueue, logged, req, ran, cancelled,
                   sidVars>>

\* One step of the generator query.results(): the next rule of the policy is
\* examined against the criteria; a matching rule is yielded.
ExamineRule ==
    /\ worker.pc = "scanning"
    /\ worker.scanned < Len(policy)
    /\ LET i == worker.scanned + 1 IN
       worker' = IF Matches(query, policy[i])
                 THEN [worker EXCEPT !.scanned = i, !.item = i, !.pc = "yielded"]
                 ELSE [worker EXCEPT !.scanned = i]
    /\ UNCHANGED <<policy, ui, msgbox, query, fresh, max_results, busy, thread,
                   resultlist, raw_results, guiQueue, logged, req, otherVars>>

\* The generator has examined every rule: the for loop ends.
GeneratorExhausted ==
    /\ worker.pc = "scanning"
    /\ worker.scanned = Len(policy)
    /\ worker' = [worker EXCEPT !.pc = "finishing"]
    /\ UNCHANGED <<policy, ui, msgbox, query, fresh, max_results, busy, thread,
                   resultlist, raw_results, guiQueue, logged, req, otherVars>>

\* A loop body that replaces the list by the item.
AppendItem_overwrite(results, item) == <<item>>

\* A loop body that inserts the item at the front.
AppendItem_prepend(results, item) == <<item>> \o results

\* results.append(item), as the loop body does it.
AppendItem(results, item) == Append(results, item)

\* A loop body that stores the item and emits no raw_line for it.
LoopAppend_noEmit ==
    /\ worker.pc = "yielded"
    /\ worker' = [worker EXCEPT !.counter = @ + 1,
                                !.results = Append(@, policy[worker.item]),
                                !.pc = "appended"]
    /\ UNCHANGED <<policy, ui, msgbox, query, fresh, max_results, busy, thread,
                   resultlist, raw_results, guiQueue, logged, req, otherVars>>

\* The loop body up to the stop check: counter is the enumerate index, the
\* item is appended and raw_line is emitted (posted to the GUI thread).
LoopAppend ==
    /\ worker.pc = "yielded"
    /\ worker' = [worker EXCEPT !.counter = @ + 1,
                                !.results = AppendItem(@, policy[worker.item]),
                                !.pc = "appended"]
    /\ guiQueue' = Append(guiQueue,
                     [sig |-> "raw_line", line |-> Statement(policy[worker.item])])
    /\ emitted' = Append(emitted, policy[worker.item])
    /\ UNCHANGED <<policy, ui, msgbox, query, fresh, max_results, busy, thread,
                   resultlist, raw_results, logged, req, ran, cancelled,
                   sidVars>>

\* QThread.isInterruptionRequested(), as the loop reads it.
StopObserved(th) == th.interruptionRequested

\* The stop check at the end of the loop body: break, or go on to the next
\* item (yieldCurrentThread every 10 items changes no state).
LoopCheckStop ==
    /\ worker.pc = "appended"
    /\ worker' = IF StopObserved(thread)
                 THEN [worker EXCEPT !.pc = "finishing"]
                 ELSE [worker EXCEPT !.pc = "scanning"]
    /\ UNCHANGED <<policy, ui, msgbox, query, fresh, max_results, busy, thread,
                   resultlist, raw_results, guiQueue, logged, req, otherVars>>

\* After the loop: the results are published to the table model, the count
\* is logged and finished is emitted (posted to the GUI thread).
WorkerFinish ==
    /\ worker.pc = "finishing"
    /\ resultlist' = worker.results
    /\ logged' = worker.counter
    /\ guiQueue' = Append(guiQueue, [sig |-> "finished", line |-> <<>>])
    /\ worker' = WorkerIdle("returned")
    /\ fresh' = ~thread.interruptionRequested
    /\ cancelled' = (cancelled \/ thread.interruptionRequested)
    /\ UNCHANGED <<policy, ui, msgbox, query, max_results, busy, thread,
                   raw_results, req, ran, emitted, sidVars>>

(***************************************************************************)
(* The GUI thread's handling of the worker's signals.                      *)
(***************************************************************************)
\* raw_line -> raw_results.appendPlainText
DeliverRawLine ==
    /\ guiQueue # <<>>
    /\ Head(guiQueue).sig = "raw_line"
    /\ raw_results' = Append(raw_results, Head(guiQueue).line)
    /\ guiQueue' = Tail(guiQueue)
    /\ UNCHANGED <<policy, ui, msgbox, query, fresh, max_results, busy, thread,
                   worker, resultlist, logged, req, otherVars>>

\* finished -> update_complete (which ends with busy.reset()), then
\* finished -> thread.quit: the thread's event loop is told to exit.
OnFinished ==
    /\ guiQueue # <<>>
    /\ Head(guiQueue).sig = "finished"
    /\ guiQueue' = Tail(guiQueue)
    /\ busy' = [visible |-> FALSE, wasCanceled |-> FALSE]
    /\ thread' = IF thread.state = "running"
                 THEN [thread EXCEPT !.state = "quitting"]
                 ELSE thread
    /\ UNCHANGED <<policy, ui, msgbox, query, fresh, max_results, worker,
                   resultlist, raw_results, logged, req, otherVars>>

\* The thread's event loop has exited: the thread is no longer running.
ThreadExit ==
    /\ thread.state = "quitting"
    /\ thread' = [thread EXCEPT !.state = "stopped"]
    /\ worker' = WorkerIdle("idle")
    /\ UNCHANGED <<policy, ui, msgbox, query, fresh, max_results, busy,
                   resultlist, raw_results, guiQueue, logged, req, otherVars>>

(***************************************************************************)
(* The initial SID factory (initsid.py).                                   *)
(***************************************************************************)
\* The initial SIDs of the policy, by name.
InitialSidNames == {"kernel", "security", "unlabeled"}
\* Names that are no initial SID of the policy.
UnknownSidNames == {"bogus", ""}

\* An argument of the factory: a raw handle (a qpol_isid_t) or a name.
RawHandle(n) == [tag |-> "qpol_isid_t", name |-> n]
NameArg(n) == [tag |-> "str", name |-> n]
FactoryArgs ==
    {RawHandle(n) : n \in InitialSidNames}
    \cup {NameArg(n) : n \in InitialSidNames \cup UnknownSidNames}

\* What the binding makes of an argument of qpol_isid_t that is no string,
\* an InitialSID object: it rejects the argument's type, it finds no initial
\* SID for it, or it reads the object's name.
Conversions == {"TypeError", "ValueError", "name"}
\* An argument of the factory that is an InitialSID object a previous call
\* returned: the object at position i of the heap.
WrappedArg(i, conv) ==
    [tag |-> "InitialSID", name |-> heap[i].qpol_symbol.name, ref |-> i,
     conv |-> conv]

\* qpol.qpol_isid_t(policy, name): the raw handle of the initial SID of that
\* name; a ValueError when the policy has none.
qpol_isid_t(name) ==
    IF name \in InitialSidNames
    THEN [ok |-> TRUE, handle |-> RawHandle(name)]
    ELSE [ok |-> FALSE, handle |-> RawHandle("")]

\* InitialSID(policy, handle): a new object wrapping the handle; objects are
\* identified by their position in the heap.
NewInitialSID(h, handle, arg) ==
    [heap |-> Append(h, [qpol_symbol |-> handle]),
     ret |-> [kind |-> "object", input |-> arg, ref |-> Len(h) + 1,
              error |-> ""]]

\* A factory that wraps whatever the lookup returned instead of raising.
initialsid_factory_noRaise(h, symbol) ==
    IF symbol.tag = "qpol_isid_t"
    THEN NewInitialSID(h, symbol, symbol)
    ELSE NewInitialSID(h, qpol_isid_t(symbol.name).handle, symbol)

\* initialsid_factory(policy, symbol)
initialsid_factory(h, symbol) ==
    IF symbol.tag = "qpol_isid_t"
    THEN NewInitialSID(h, symbol, symbol)
    ELSE IF symbol.tag = "InitialSID" /\ symbol.conv = "TypeError"
    THEN \* not a ValueError: the exception leaves the factory as it is
         [heap |-> h,
          ret |-> [kind |-> "raise", input |-> symbol, ref |-> 0,
                   error |-> "TypeError"]]
    ELSE LET r == IF symbol.tag = "InitialSID" /\ symbol.conv = "ValueError"
                  THEN [ok |-> FALSE, handle |-> RawHandle("")]
                  ELSE qpol_isid_t(symbol.name) IN
         IF r.ok
         THEN NewInitialSID(h, r.handle, symbol)
         ELSE [heap |-> h,
               ret |-> [kind |-> "raise", input |-> symbol, ref |-> 0,
                        error |-> "InvalidInitialSid"]]

\* A caller invokes the factory.
CallFactory(symbol) ==
    /\ Len(heap) < MaxObjects
    /\ LET r == initialsid_factory(heap, symbol) IN
       /\ heap' = r.heap
       /\ ret' = r.ret
    /\ UNCHANGED guiVars

(***************************************************************************)
(* Specifications.                                                         *)
(***************************************************************************)
\* The texts the user types into the source field under Spec.
SourceTexts == {Empty, T2}
\* The rule kinds whose check box the user toggles under Spec.
ToggledKinds == {"allow"}

Init ==
    /\ policy \in InjSeqs(RuleUniverse, MaxRules)
    /\ InitTab
    /\ InitSid

\* The worker's steps and the GUI thread's handling of its signals.
Background ==
    \/ WorkerBegin
    \/ ExamineRule
    \/ GeneratorExhausted
    \/ LoopAppend
    \/ LoopCheckStop
    \/ WorkerFinish
    \/ DeliverRawLine
    \/ OnFinished
    \/ ThreadExit

\* The tab with its worker, for every policy of at most MaxRules rules: the
\* user edits the source criterion and the rule kinds, runs queries any
\* number of times and cancels them.
Next ==
    \/ \E text \in SourceTexts : EditSource(text)
    \/ \E kind \in ToggledKinds : ToggleRuletype(kind)
    \/ Run
    \/ \E reply \in {"Yes", "No"} : QuestionReply(reply)
    \/ Cancel
    \/ Background

Spec == Init /\ [][Next]_vars

\* The worker thread and the GUI thread's event loop are scheduled: a step of
\* update(), a posted signal and the thread's exit are not put off for ever.
\* Nothing obliges the user to act.
Fairness ==
    /\ WF_vars(WorkerBegin)
    /\ WF_vars(ExamineRule)
    /\ WF_vars(GeneratorExhausted)
    /\ WF_vars(LoopAppend)
    /\ WF_vars(LoopCheckStop)
    /\ WF_vars(WorkerFinish)
    /\ WF_vars(DeliverRawLine)
    /\ WF_vars(OnFinished)
    /\ WF_vars(ThreadExit)

FairSpec == Spec /\ Fairness

\* The policies of the criteria and handler specifications: the four
\* fixture rules in two enumeration orders.
FixturePolicies == {<<R1, R2, R3, R4>>, <<R4, R3, R2, R1>>}

CriteriaInit ==
    /\ policy \in FixturePolicies
    /\ InitTab
    /\ InitSid

\* The user has not clicked the run button yet.
Configuring == ~ran

\* One query on the fixture policy: the user sets up any combination of the
\* criteria, then runs the query once (and may cancel it).
CriteriaNext ==
    \/ \E text \in {Empty, T1, A1} : Configuring /\ EditSource(text)
    \/ Configuring /\ ToggleSourceRegex
    \/ \E text \in {Empty, T1} : Configuring /\ EditTarget(text)
    \/ \E text \in {Empty, T2} : Configuring /\ EditDefault(text)
    \/ \E box \in {"source_indirect", "target_indirect", "perms_equal"} :
          Configuring /\ ToggleBox(box)
    \/ \E sel \in {{}, {"file"}} : Configuring /\ SelectTclass(sel)
    \/ \E sel \in {{}, {"read"}, {"read", "write"}} :
          Configuring /\ SelectPerms(sel)
    \/ \E sel \in SUBSET Bools : Configuring /\ SelectBools(sel)
    \/ \E kind \in {"allow"} : Configuring /\ ToggleRuletype(kind)
    \/ Configuring /\ Run
    \/ \E reply \in {"Yes", "No"} : QuestionReply(reply)
    \/ Cancel
    \/ Background

CriteriaSpec == CriteriaInit /\ [][CriteriaNext]_vars

\* The slots of the source, target and default fields alone.
HandlerNext ==
    \/ \E text \in {Empty, T1, BadText, CaretT} : EditSource(text)
    \/ ToggleSourceRegex
    \/ \E text \in {Empty, A1, BadText} : EditTarget(text)
    \/ ToggleTargetRegex
    \/ \E text \in {Empty, T2, A1, BadText} : EditDefault(text)
    \/ ToggleDefaultRegex
    \/ set_all_ruletypes
    \/ clear_all_ruletypes

HandlerSpec == CriteriaInit /\ [][HandlerNext]_vars

\* The factory alone.
SidInit ==
    /\ policy = <<>>
    /\ InitTab
    /\ InitSid

SidNext ==
    \/ \E symbol \in FactoryArgs : CallFactory(symbol)
    \/ \E i \in 1..Len(heap) : \E conv \in Conversions :
          CallFactory(WrappedArg(i, conv))

SidSpec == SidInit /\ [][SidNext]_vars

(***************************************************************************)
(* Properties.                                                             *)
(***************************************************************************)
\* update() is executing: between the worker's start and its finished signal.
ScanInProgress ==
    /\ thread.state = "running"
    /\ worker.pc \in {"scanning", "yielded", "appended", "finishing"}

\* The worker has emitted finished and the GUI thread has not handled it yet.
FinishedPending == \E i \in 1..Len(guiQueue) : guiQueue[i].sig = "finished"

\* No stop was requested during the scan that has just published its results.
Uncancelled == FinishedPending /\ ~thread.interruptionRequested

\* C1, first half: once a stop has been requested with N elements consumed,
\* the list never holds more than N elements, in update() and after it.
C1_LengthBound ==
    req.set =>
        /\ Len(worker.results) <= req.n
        /\ worker.pc \in {"returned", "idle"} => Len(resultlist) <= req.n

\* C1, second half: once the loop has observed the request (it has left the
\* loop), the generator examines no further rule.
C1_NoScanAfterObserved ==
    worker.pc = "finishing" =>
        worker'.scanned = worker.scanned \/ worker'.pc = "returned"

\* C1 (cancellation bound): a stop requested after N result elements have
\* been consumed leaves a result list of at most N elements, and no rule is
\* examined after the request has been observed.
C1_CancellationBound == [](C1_LengthBound) /\ [][C1_NoScanAfterObserved]_vars

\* C2 (prompt stop): after a stop request during a scan, at most one more
\* candidate rule, matching or not, is examined before the scan ends.
C2_PromptStop == req.set => worker.scanned <= req.scanned + 1

\* C7 (no configuration change during a scan): while a scan is in progress
\* no criterion of the query is assigned a new value.
C7_NoChangeDuringScan == [][ScanInProgress => query' = query]_vars

\* A step in which the slot of a field ran and its assignment failed: the
\* field's text or regex box changed and the field shows the error.
SourceAssignFailed ==
    ui'.source_error /\ (ui'.source # ui.source \/ ui'.source_regex # ui.source_regex)
TargetAssignFailed ==
    ui'.target_error /\ (ui'.target # ui.target \/ ui'.target_regex # ui.target_regex)
DefaultAssignFailed ==
    /\ ui'.default_error
    /\ ui'.default_type # ui.default_type \/ ui'.default_regex # ui.default_regex

\* C6 (failed assignment keeps the configuration): when the assignment made
\* by a slot of the source, target or default field fails, the query's
\* criteria, the pattern and the regex flag of that field among them, are
\* what they were before the slot ran.
C6_FailedAssignKeepsConfig ==
    [][(SourceAssignFailed \/ TargetAssignFailed \/ DefaultAssignFailed)
          => query' = query]_vars

\* A rule satisfies every configured criterion of q; each criterion that is
\* unset (an empty pattern) or empty (an empty collection) is satisfied.
SatisfiesAll(q, r) ==
    /\ IF q.ruletype = {} THEN TRUE ELSE r.ruletype \in q.ruletype
    /\ IF q.source = Empty THEN TRUE
       ELSE MatchIndirectRegex(r.source, q.source, q.source_indirect, q.source_regex)
    /\ IF q.target = Empty THEN TRUE
       ELSE MatchIndirectRegex(r.target, q.target, q.target_indirect, q.target_regex)
    /\ IF q.tclass = {} THEN TRUE ELSE r.tclass \in q.tclass
    /\ IF q.perms = {} THEN TRUE ELSE MatchSet(r.perms, q.perms, q.perms_equal)
    /\ IF q.default = Empty THEN TRUE
       ELSE r.default # Empty /\ MatchRegex(r.default, q.default, q.default_regex)
    /\ IF q.boolean = {} THEN TRUE ELSE MatchSet(r.bools, q.boolean, q.boolean_equal)

\* The criteria the tab shows: the query's patterns and collections with the
\* rule kinds and the mode flags of the check boxes.
ShownCriteria ==
    [query EXCEPT !.ruletype = ui.ruletypes,
                  !.source_indirect = ui.source_indirect,
                  !.target_indirect = ui.target_indirect,
                  !.perms_equal = ui.perms_equal,
                  !.boolean_equal = ui.bools_equal]

\* C3 (conjunctive filtering): an uncancelled scan publishes exactly the
\* rules of the policy that satisfy every criterion configured in the tab,
\* an unset or empty criterion excluding no rule.
C3_ConjunctiveFiltering ==
    Uncancelled =>
        resultlist =
            FilterSeq(policy, {r \in Range(policy) : SatisfiesAll(ShownCriteria, r)})

\* An uncancelled scan with three criteria set that keeps some rules of the
\* policy and drops others.
C3_Witness ==
    /\ Uncancelled
    /\ query.source # Empty /\ query.tclass # {} /\ query.ruletype # {}
    /\ Len(resultlist) = 2

\* Every criterion of the query is unset.
AllUnset == IsBroad(query) /\ query.ruletype = {}

\* C4 (native order): the rules the worker has stored, and the published
\* list, are order-preserving subsequences of the policy's enumeration; an
\* uncancelled scan with every criterion unset publishes the whole policy.
C4_NativeOrder ==
    /\ IsSubsequence(worker.results, policy)
    /\ IsSubsequence(resultlist, policy)
    /\ Uncancelled /\ AllUnset => resultlist = policy

\* An uncancelled scan with no criterion set has published two rules.
C4_Witness == Uncancelled /\ AllUnset /\ Len(resultlist) = 2

\* C5 (restartability): when an uncancelled scan publishes its results and
\* the list it replaces is the outcome of an uncancelled scan with the same,
\* unmodified criteria, the new list is identical to the old one.
C5_Restartable ==
    [][(worker.pc = "finishing" /\ worker'.pc = "returned"
        /\ fresh /\ ~thread.interruptionRequested)
          => resultlist' = resultlist]_vars

\* A second uncancelled scan with unmodified criteria is about to publish a
\* non-empty list.
C5_Witness ==
    /\ worker.pc = "finishing"
    /\ fresh /\ ~thread.interruptionRequested
    /\ Len(worker.results) >= 1

\* The rules that satisfy every criterion of the query other than the source.
OtherThanSource(r) == SatisfiesAll([ShownCriteria EXCEPT !.source = Empty], r)

\* C8 (indirect matching): with the indirect box checked and regex off, a
\* source that is an attribute matches the rules whose source is one of its
\* member types, and a source that is a type matches the rules whose source
\* is an attribute that owns it.
C8_IndirectMatching ==
    Uncancelled /\ ui.source_indirect /\ ~query.source_regex =>
        \A a \in Attributes : \A t \in MembersOf(a) :
            \A i \in 1..Len(policy) :
                /\ OtherThanSource(policy[i])
                /\ \/ query.source = a /\ policy[i].source = t
                   \/ query.source = t /\ policy[i].source = a
                => policy[i] \in Range(resultlist)

\* Source a1, indirect: the rule whose source is the member type t1 has been
\* published.
C8_Witness ==
    /\ Uncancelled /\ ui.source_indirect /\ ~query.source_regex
    /\ query.source = A1
    /\ R1 \in Range(resultlist)

\* The rules that satisfy every criterion other than the permissions.
OtherThanPerms(r) == SatisfiesAll([ShownCriteria EXCEPT !.perms = {}], r)

\* C9 (permission-set matching): with a non-empty permission set P selected,
\* a rule matches iff its permissions are a superset of P (equal unchecked)
\* or exactly P (equal checked).
C9_PermissionSets ==
    Uncancelled /\ ui.perms # {} =>
        \A i \in 1..Len(policy) :
            OtherThanPerms(policy[i]) =>
                (policy[i] \in Range(resultlist)
                    <=> IF ui.perms_equal
                        THEN policy[i].perms = ui.perms
                        ELSE ui.perms \subseteq policy[i].perms)

\* {read} with equal checked: the rule with {read, write} is not published
\* and the rule with {read} is.
C9_Witness ==
    /\ Uncancelled /\ ui.perms = {"read"} /\ ui.perms_equal
    /\ R2 \in Range(resultlist)
    /\ R1 \notin Range(resultlist)

\* C10 (invalid initial SID): a factory call with a name that is no initial
\* SID of the policy raises InvalidInitialSid at the call and constructs no
\* InitialSID object.
C10_InvalidInitialSid ==
    [][(ret'.input.tag = "str" /\ ret'.input.name \notin InitialSidNames)
          => /\ ret'.kind = "raise"
             /\ ret'.error = "InvalidInitialSid"
             /\ heap' = heap]_vars

\* The factory has raised on an unknown name after constructing an object.
C10_Witness ==
    /\ ret.kind = "raise"
    /\ ret.input = NameArg("bogus")
    /\ Len(heap) >= 1

\* C11 (interning): no two InitialSID objects constructed by the factory wrap
\* the same raw handle; a later request for a handle returns the object the
\* first request constructed.
C11_Interning ==
    \A i, j \in 1..Len(heap) :
        heap[i].qpol_symbol = heap[j].qpol_symbol => i = j

\* C12 (a wrapped symbol is returned unchanged): a factory call whose argument
\* is an InitialSID object returns that very object and constructs nothing.
C12_WrappedUnchanged ==
    [][ret'.input.tag = "InitialSID"
          => /\ ret'.kind = "object"
             /\ ret'.ref = ret'.input.ref
             /\ heap' = heap]_vars

\* C13 (incremental delivery): a rule the generator has found to match is the
\* last rule examined so far, and the worker's next step emits raw_line for
\* it; no rule after it is examined before that, so the candidates are never
\* collected ahead of the output.
C13_IncrementalDelivery ==
    [][worker.pc = "yielded" =>
          /\ worker.item = worker.scanned
          /\ worker'.scanned = worker.scanned
          /\ worker' # worker =>
                /\ emitted' = Append(emitted, policy[worker.item])
                /\ Len(guiQueue') = Len(guiQueue) + 1
                /\ guiQueue'[Len(guiQueue')] =
                      [sig |-> "raw_line", line |-> Statement(policy[worker.item])]]_vars

\* raw_line has been emitted for the first rule of a policy of two rules
\* and the second rule has not been examined yet.
C13_Witness ==
    /\ worker.pc \in {"appended", "scanning"}
    /\ Len(policy) = 2
    /\ worker.scanned = 1
    /\ emitted = <<policy[1]>>

\* The busy dialog after reset(): hidden, wasCanceled cleared.
BusyReset == ~busy.visible /\ ~busy.wasCanceled

\* C14 (every scan finishes): once run() has shown the busy dialog, the
\* worker's finished signal eventually arrives and update_complete resets the
\* dialog, whether the scan completes or is cancelled.
C14_EveryScanFinishes == busy.visible ~> BusyReset

\* The result sequence of an uncancelled scan of the policy with criteria q.
FullResults(q) == FilterSeq(policy, {r \in Range(policy) : Matches(q, r)})

\* update() publishes its results and emits finished.
EmitsFinished == worker.pc = "finishing" /\ worker'.pc = "returned"

\* C15 (published results are consistent): when update() emits finished, the
\* published list is the sequence of rules raw_line was emitted for in this
\* run, it is a prefix of the full result sequence for the current criteria
\* (all of it when no stop was requested), and the logged count is its length.
C15_PublishedConsistent ==
    [][EmitsFinished =>
          /\ resultlist' = emitted
          /\ IsPrefixOf(resultlist', FullResults(query))
          /\ ~thread.interruptionRequested => resultlist' = FullResults(query)
          /\ logged' = Len(resultlist')]_vars

\* C16 (the estimate is an upper bound): an uncancelled scan publishes at
\* most max_results rules, the sum run() computed from the checked kinds.
C16_EstimateUpperBound == Uncancelled => Len(resultlist) <= max_results

\* What a scan is started with and what it publishes to.
ScanState == <<busy, thread, worker, guiQueue, emitted, raw_results, resultlist>>

NoStopSinceShown == busy.visible /\ ~busy.wasCanceled

\* C18 (a stop request affects only the scan in progress): after a cancelled
\* scan has finished, a scan during which no stop is requested examines
\* every rule of the policy and publishes the full result sequence for its
\* criteria.
C18_StopOnlyCurrentScan ==
    [][EmitsFinished /\ cancelled /\ NoStopSinceShown
          => /\ worker.scanned = Len(policy)
             /\ resultlist' = FullResults(query)]_vars

\* After a cancelled scan, a scan without a stop request has published both
\* rules of the policy.
C18_Witness ==
    /\ cancelled /\ NoStopSinceShown
    /\ worker.pc = "returned"
    /\ FinishedPending
    /\ Len(resultlist) = 2

====
